---- MODULE Spec2Model ----
(***************************************************************************)
(* SentraCore backend: the REST routes (routes/sentra_core_routes.py), the *)
(* controller over the "sentra_core" collection                            *)
(* (controllers/sentra_core_controller.py) and the record models           *)
(* (models/sentra_core.py).                                                *)
(*                                                                         *)
(* The document store is the external collaborator.  It is modelled by     *)
(* what the driver documents: one call on one document is atomic; $set     *)
(* replaces the named fields only; modified_count counts documents whose   *)
(* content changed; datetimes are kept in milliseconds; a sort on a key    *)
(* with equal values returns those documents in an unspecified order.      *)
(*                                                                         *)
(* Python's None is the empty tuple and a present value v is <<v>>, so     *)
(* that Optional fields of any type compare.                               *)
(* Time is counted in the store's unit (milliseconds); the wall clock is   *)
(* taken not to run backwards.  A fresh ObjectId cannot be guessed: a      *)
(* request names an identifier only after the create that made it has      *)
(* answered.                                                               *)
(***************************************************************************)
EXTENDS Integers, Sequences, FiniteSets, TLC

\* ------------------------------------------------------------- bounds
\* Number of requests of the modelled run that write: POSTs, and PUTs that
\* reach the store (a DELETE only removes what a POST made).
MaxOps == 3
\* Last millisecond of the modelled run; the clock stays there once reached.
MaxClock == 1

\* Length of the hexadecimal text of an ObjectId (12 bytes).
OidLen == 24

\* The request handlers that can be in flight at the same time.
Procs == {"p1", "p2"}

\* ------------------------------------------------------------- values
None == <<>>
Some(v) == <<v>>

\* The fields a SentraCoreUpdate carries (models/sentra_core.py 75-79).
Fields == {"name", "description", "labels", "connections", "selected_option"}

\* ------------------------------------------------------------- identifiers
\* An ObjectId is 12 bytes, written here as the number they denote; its text
\* is 24 hexadecimal characters, a sequence of one-character strings.
HexLower == <<"0", "1", "2", "3", "4", "5", "6", "7", "8", "9",
              "a", "b", "c", "d", "e", "f">>
HexUpper == <<"0", "1", "2", "3", "4", "5", "6", "7", "8", "9",
              "A", "B", "C", "D", "E", "F">>
HexChars == { HexLower[v] : v \in 1..16 } \cup { HexUpper[v] : v \in 1..16 }

\* The value of each hexadecimal character, in either case.
HexDigitValue ==
    [c \in HexChars |-> (CHOOSE v \in 1..16 : HexLower[v] = c \/ HexUpper[v] = c) - 1]

\* bson ObjectId.is_valid on a str: 24 characters, all hexadecimal.
IsValidObjectId(s) ==
    /\ Len(s) = OidLen
    /\ \A i \in 1..Len(s) : s[i] \in HexChars

\* ObjectId(s) = bytes.fromhex(s): the bytes the text denotes, whatever the
\* letter case.
ObjectId(s) ==
    LET val[i \in 0..Len(s)] ==
            IF i = 0 THEN 0 ELSE val[i - 1] * 16 + HexDigitValue[s[i]]
    IN  val[Len(s)]

\* str(oid): the 24 lower-case hexadecimal characters of an ObjectId.
ObjectIdText(v) ==
    LET rest[j \in 0..OidLen] == IF j = 0 THEN v ELSE rest[j - 1] \div 16
    IN  [i \in 1..OidLen |-> HexLower[(rest[OidLen - i] % 16) + 1]]

\* default_factory=ObjectId: the n-th identifier generated in the run, a
\* value no earlier call returned.
NewObjectId(n) == 10 * 16 + n

\* The same identifier text in upper case.
UpperText(s) ==
    [i \in 1..Len(s) |-> IF s[i] \in HexChars THEN HexUpper[HexDigitValue[s[i]] + 1]
                         ELSE s[i]]

\* A well-formed identifier that no create ever generates.
NeverId == [i \in 1..OidLen |-> IF i > OidLen - 2 THEN "f" ELSE "0"]

\* Malformed identifiers: too short, and a non-hex character.
MalformedIds ==
    { [i \in 1..(OidLen - 1) |-> "0"],
      [i \in 1..OidLen |-> IF i = 1 THEN "g" ELSE "0"] }

\* A path parameter as the handlers use it: the text sent, whether
\* ObjectId.is_valid accepts it, and the ObjectId it then denotes.
IdInput(s) ==
    [sid |-> s, valid |-> IsValidObjectId(s),
     oid |-> IF IsValidObjectId(s) THEN ObjectId(s) ELSE 0]

\* The path parameters of the modelled run: the texts of the identifiers the
\* run can generate, one that never existed and the malformed ones; and the
\* generated ones in upper case.
LowerIdInputs ==
    { IdInput(ObjectIdText(NewObjectId(k))) : k \in 1..MaxOps }
        \cup { IdInput(NeverId) } \cup { IdInput(s) : s \in MalformedIds }
UpperIdInputs ==
    { IdInput(UpperText(ObjectIdText(NewObjectId(k)))) : k \in 1..MaxOps }

\* ------------------------------------------------------------- models
\* Two LabelModel values and one ConnectionModel value (models/sentra_core.py).
LabelA == [id |-> "1", text |-> "Forward", value |-> "100",
           x |-> 150, y |-> 200, category |-> "move"]
LabelB == [id |-> "2", text |-> "Turn Right", value |-> "90",
           x |-> 300, y |-> 200, category |-> "turn"]
ConnAB == [id |-> "1-2", from_id |-> "1", to_id |-> "2"]

\* SentraCoreCreate bodies that pass request validation.
CreateRequests ==
    { [name |-> Some("Robot"), description |-> None,
       labels |-> Some(<<LabelB, LabelA>>), connections |-> Some(<<ConnAB>>),
       selected_option |-> Some("move-forward")] }

\* SaveStateRequest bodies: the connection's source is "from" on the wire and
\* from_ in FrontendConnection.
SaveStateRequests ==
    { [name |-> "Saved", description |-> Some(""),
       labels |-> <<LabelB>>,
       connections |-> << [id |-> "2-1", from_ |-> "2", to |-> "1"] >>,
       selected_option |-> "turn"] }

\* A SentraCoreUpdate: every field defaults to None; fields_set are the
\* fields the request body named (pydantic's model_fields_set).
SentraCoreUpdate(given) ==
    [fields_set |-> DOMAIN given,
     vals |-> [f \in Fields |-> IF f \in DOMAIN given THEN given[f] ELSE None]]

EmptyGiven == [f \in {} |-> None]

\* PUT bodies that pass request validation: no field, one field, two fields.
UpdateRequests ==
    { SentraCoreUpdate(EmptyGiven),
      SentraCoreUpdate("name" :> Some("Arm")),
      SentraCoreUpdate(("name" :> Some("Grip")) @@ ("labels" :> Some(<<LabelA>>))) }

\* PUT bodies that name a field with null: every field of SentraCoreUpdate is
\* Optional, so the body passes request validation and the field is set.
NullUpdateRequests ==
    { SentraCoreUpdate("name" :> None),
      SentraCoreUpdate("labels" :> None),
      SentraCoreUpdate(("connections" :> None) @@ ("description" :> Some("idle"))) }

\* SentraCoreModel(name=..., ...): id, created_at and updated_at come from
\* their default factories, called in field order; t1 and t2 are the two
\* readings of datetime.utcnow.
SentraCoreModelNew(data, oid, t1, t2) ==
    [id |-> oid,
     name |-> data.name,
     description |-> data.description,
     labels |-> data.labels,
     connections |-> data.connections,
     selected_option |-> data.selected_option,
     created_at |-> t1,
     updated_at |-> t2]

\* model_dump(by_alias=True): the field id is written under its alias _id.
ModelDumpByAlias(m) ==
    [k \in (DOMAIN m \ {"id"}) \cup {"_id"} |-> IF k = "_id" THEN m.id ELSE m[k]]

\* What SentraCoreModel(**doc) requires of a stored document: name is a
\* str, labels and connections are lists; description and selected_option
\* are Optional.
Conforms(doc) ==
    /\ doc.name /= None
    /\ doc.labels /= None
    /\ doc.connections /= None

\* SentraCoreModel(**doc) for a document that conforms.
SentraCoreModelOf(doc) ==
    [k \in (DOMAIN doc \ {"_id"}) \cup {"id"} |-> IF k = "id" THEN doc["_id"] ELSE doc[k]]

\* update_data.model_dump(exclude_unset=True): only the fields the body named.
ModelDumpAll(u) == u.vals
ModelDumpExcludeUnset(u) == [f \in u.fields_set |-> u.vals[f]]

\* update_dict: the dumped fields, then update_dict["updated_at"] = now.
UpdateDictStampCreated(u, t) == ("created_at" :> t) @@ ModelDumpExcludeUnset(u)
UpdateDictAllFields(u, t) == ("updated_at" :> t) @@ ModelDumpAll(u)
UpdateDict(u, t) == ("updated_at" :> t) @@ ModelDumpExcludeUnset(u)

\* save_current_state: FrontendLabel -> label dict, FrontendConnection ->
\* connection dict, then SentraCoreCreate(...).
ConvertLabel(l) ==
    [id |-> l.id, text |-> l.text, value |-> l.value,
     x |-> l.x, y |-> l.y, category |-> l.category]
ConvertConnection(c) == [id |-> c.id, from_id |-> c.from_, to_id |-> c.to]
ConvertState(r) ==
    [name |-> Some(r.name),
     description |-> r.description,
     labels |-> Some([i \in 1..Len(r.labels) |-> ConvertLabel(r.labels[i])]),
     connections |->
        Some([i \in 1..Len(r.connections) |-> ConvertConnection(r.connections[i])]),
     selected_option |-> Some(r.selected_option)]

\* ------------------------------------------------------------- the store
\* A collection is a function from the keys (_id) to the documents.
EmptyCollection == [k \in {} |-> None]

\* insert_one(doc)
InsertOne(coll, doc) ==
    [k \in DOMAIN coll \cup {doc["_id"]} |-> IF k = doc["_id"] THEN doc ELSE coll[k]]

\* find_one({"_id": oid}): the document, or None.
FindOne(coll, oid) == IF oid \in DOMAIN coll THEN Some(coll[oid]) ELSE None

\* {"$set": d} on one document: the fields d names take d's values, every
\* other field stays.
ReplaceFields(doc, d) ==
    [k \in DOMAIN doc |-> IF k \in DOMAIN d THEN d[k]
                          ELSE IF k \in {"_id", "created_at"} THEN doc[k]
                          ELSE None]
SetFields(doc, d) ==
    [k \in DOMAIN doc \cup DOMAIN d |-> IF k \in DOMAIN d THEN d[k] ELSE doc[k]]

\* update_one({"_id": oid}, {"$set": d}), no upsert: the collection after.
UpdateOneUpsert(coll, oid, d) ==
    IF oid \in DOMAIN coll
    THEN [coll EXCEPT ![oid] = SetFields(@, d)]
    ELSE InsertOne(coll, SetFields([k \in {"_id"} |-> oid], d))
UpdateOne(coll, oid, d) ==
    IF oid \in DOMAIN coll THEN [coll EXCEPT ![oid] = SetFields(@, d)] ELSE coll

\* result.modified_count: 1 when the matched document changed, else 0.
MatchedCount(coll, oid, d) == IF oid \in DOMAIN coll THEN 1 ELSE 0
ModifiedCount(coll, oid, d) ==
    IF oid \in DOMAIN coll /\ SetFields(coll[oid], d) /= coll[oid] THEN 1 ELSE 0

\* delete_one({"_id": oid}) and result.deleted_count.
DeleteOne(coll, oid) == [k \in DOMAIN coll \ {oid} |-> coll[k]]
DeletedCount(coll, oid) == IF oid \in DOMAIN coll THEN 1 ELSE 0

\* return result.deleted_count > 0
DeleteResultAlways(n) == n >= 0
DeleteResult(n) == n > 0

\* count_documents({})
CountDocuments(coll) == Cardinality(DOMAIN coll)

\* find().sort("created_at", -1): every order of the keys in which created_at
\* never increases.  Documents with equal created_at come in any order, and
\* each query chooses anew.
SortedOrders(coll) ==
    { o \in [1..Cardinality(DOMAIN coll) -> DOMAIN coll] :
        /\ \A i, j \in DOMAIN o : i /= j => o[i] /= o[j]
        /\ \A i, j \in DOMAIN o :
              i < j => coll[o[i]].created_at >= coll[o[j]].created_at }

Min(a, b) == IF a <= b THEN a ELSE b

\* .skip(skip).limit(limit) on the sorted cursor, then to_list(length=limit).
Page(order, skip, limit) == SubSeq(order, skip + 1, Min(skip + limit, Len(order)))

\* ------------------------------------------------------------- outcomes
\* What a call ends with: a returned value, or a raised exception of class cls
\* (an HTTPException carries its status code).
Return(v) == [kind |-> "return", value |-> v, cls |-> "", code |-> 0]
Raise(c, n) == [kind |-> "raise", value |-> None, cls |-> c, code |-> n]

\* Python's class hierarchy for the classes met here: HTTPException,
\* ValueError and TypeError derive from Exception; pydantic's ValidationError
\* derives from ValueError.
IsSubclass(c, base) ==
    \/ c = base
    \/ base = "Exception"
    \/ c = "ValidationError" /\ base = "ValueError"

\* The controller's "except Exception as e: raise Exception(...)": whatever
\* the body raised leaves the controller as a plain Exception.
ControllerCatch(out) ==
    IF out.kind = "raise" /\ IsSubclass(out.cls, "Exception")
    THEN Raise("Exception", 0)
    ELSE out

\* SentraCoreModel(**doc) on what find_one returned: a TypeError for None,
\* a ValidationError for a document that does not conform.
BuildModel(found) ==
    IF found = None THEN Raise("TypeError", 0)
    ELSE IF ~Conforms(found[1]) THEN Raise("ValidationError", 0)
    ELSE Return(Some(SentraCoreModelOf(found[1])))

\* get_sentra_core_by_id (controller 33-45).
GetByIdBody(coll, rq) ==
    IF ~rq.valid THEN Raise("ValueError", 0)
    ELSE IF FindOne(coll, rq.oid) /= None
         THEN BuildModel(FindOne(coll, rq.oid))
         ELSE Return(None)
GetSentraCoreById(coll, rq) == ControllerCatch(GetByIdBody(coll, rq))

\* delete_sentra_core (controller 82-92): the returned bool.
DeleteBody(coll, rq) ==
    IF ~rq.valid THEN Raise("ValueError", 0)
    ELSE Return(DeleteResult(DeletedCount(coll, rq.oid)))
DeleteSentraCore(coll, rq) == ControllerCatch(DeleteBody(coll, rq))

\* The three /{sentra_core_id} routes share one shape: inside the try, a falsy
\* controller result raises HTTPException(404); "except ValueError" answers
\* 400; "except Exception" answers 500.  falsy is "not result".
RouteById(out, falsy) ==
    LET body == IF out.kind = "raise" THEN out
                ELSE IF falsy THEN Raise("HTTPException", 404)
                ELSE Return(out.value)
    IN  IF body.kind = "return" THEN 200
        ELSE IF IsSubclass(body.cls, "ValueError") THEN 400
        ELSE IF IsSubclass(body.cls, "Exception") THEN 500
        ELSE body.code

\* GET / , GET /count/ : 200, or 500 on any exception.
RouteRead(out) == IF out.kind = "return" THEN 200 ELSE 500

\* POST / and POST /save-state/ : 201, or 400 on any exception.
RouteCreate(out) == IF out.kind = "return" THEN 201 ELSE 400

\* ------------------------------------------------------------- state
VARIABLES
    store,      \* the "sentra_core" collection
    clock,      \* the last reading of datetime.utcnow, in milliseconds
    oids,       \* how many ObjectIds the default factory has generated
    pc,         \* where each in-flight PUT stands: "idle", "update_one", "find_one"
    req,        \* the in-flight PUT of each handler
    resp,       \* the answer the last step gave (NoAnswer when it gave none)
    nCreated,   \* history: creates that returned a record
    nDeleted,   \* history: deletes that returned true
    removed,    \* history: the keys whose delete returned true
    born,       \* history: the created_at each stored key was inserted with
    writes,     \* history: per stored key, the last two matched update_one calls
                \* made by the handlers of Procs
    nUpdates    \* history: PUT requests that went on to the store

vars == <<store, clock, oids, pc, req, resp, nCreated, nDeleted, removed, born, writes,
          nUpdates>>

\* datetime.utcnow(): the clock read now, no earlier than the last reading.
Readings(t) == t .. Min(t + 1, MaxClock)

\* The identifiers a client can send: those it was given by a create, one
\* that never existed, and malformed ones; a GET also sends them in upper case.
IssuedIds == { NewObjectId(k) : k \in 1..oids }
RequestIds == { rq \in LowerIdInputs : rq.valid /\ rq.sid /= NeverId => rq.oid \in IssuedIds }
GetRequestIds == RequestIds \cup { rq \in UpperIdInputs : rq.oid \in IssuedIds }

\* update_sentra_core up to the store call: the key and update_dict.
UpdateRequest(rq, u, t) ==
    [oid |-> rq.oid, sid |-> rq.sid, u |-> u, t |-> t, dict |-> UpdateDict(u, t)]

NoRequest == [oid |-> 0, sid |-> <<>>, u |-> SentraCoreUpdate(EmptyGiven), t |-> 0,
              dict |-> UpdateDict(SentraCoreUpdate(EmptyGiven), 0)]

\* What a handler saw at the store: whether its filter matched a document,
\* the modified count, whether the collection changed, how many store calls
\* it made, the matched document before the call, and its clock reading.
Seen(matched, modified, changed, calls, before, t) ==
    [matched |-> matched, modified |-> modified, changed |-> changed,
     calls |-> calls, before |-> before, t |-> t]

NothingSeen == Seen(FALSE, 0, FALSE, 0, None, 0)

\* An answer: the route (op), the identifier sent (sid), the controller's
\* outcome (kind, value), the HTTP status, what the handler saw, its input.
Answer(op, sid, out, status, seen, input) ==
    [op |-> op, sid |-> sid, kind |-> out.kind, value |-> out.value,
     status |-> status, seen |-> seen, input |-> input]

NoAnswer == Answer("none", <<>>, Return(None), 0, NothingSeen, None)

Init ==
    /\ store = EmptyCollection
    /\ clock = 0
    /\ oids = 0
    /\ pc = [p \in Procs |-> "idle"]
    /\ req = [p \in Procs |-> NoRequest]
    /\ resp = NoAnswer
    /\ nCreated = 0
    /\ nDeleted = 0
    /\ removed = {}
    /\ born = EmptyCollection
    /\ writes = EmptyCollection
    /\ nUpdates = 0

\* create_sentra_core (controller 11-31): build the model (two clock
\* readings), insert_one, find_one by the inserted id, SentraCoreModel(**doc).
\* Nothing else can touch the new key between the insert and the re-read,
\* because no client has the key before the answer.
CreateWith(op, data) ==
    /\ oids + nUpdates < MaxOps
    /\ \E t1 \in Readings(clock) : \E t2 \in Readings(t1) :
        LET oid == NewObjectId(oids + 1)
            doc == ModelDumpByAlias(SentraCoreModelNew(data, oid, t1, t2))
            coll == InsertOne(store, doc)
            out == ControllerCatch(BuildModel(FindOne(coll, oid)))
        IN  /\ store' = coll
            /\ clock' = t2
            /\ oids' = oids + 1
            /\ nCreated' = IF out.kind = "return" THEN nCreated + 1 ELSE nCreated
            /\ born' = [k \in DOMAIN coll |-> IF k = oid THEN t1 ELSE born[k]]
            /\ writes' = [k \in DOMAIN coll |-> IF k = oid THEN <<>> ELSE writes[k]]
            /\ resp' = Answer(op, ObjectIdText(oid), out, RouteCreate(out),
                              Seen(FALSE, 0, coll /= store, 2, None, t1), Some(data))
    /\ UNCHANGED <<pc, req, nDeleted, removed, nUpdates>>

\* POST /
Create == \E data \in CreateRequests : CreateWith("create", data)

\* POST /save-state/ : save_current_state converts, then create_sentra_core.
SaveState == \E r \in SaveStateRequests : CreateWith("save", ConvertState(r))

\* GET /{sentra_core_id}
Get ==
    \E rq \in GetRequestIds :
        LET out == GetSentraCoreById(store, rq)
            found == IF rq.valid THEN FindOne(store, rq.oid) ELSE None
        IN  /\ resp' = Answer("get", rq.sid, out,
                              RouteById(out, out.kind = "return" /\ out.value = None),
                              Seen(found /= None, 0, FALSE, IF rq.valid THEN 1 ELSE 0,
                                   found, 0),
                              None)
            /\ UNCHANGED <<store, clock, oids, pc, req, nCreated, nDeleted,
                           removed, born, writes, nUpdates>>

\* DELETE /{sentra_core_id}
Delete ==
    \E rq \in RequestIds :
        LET out == DeleteSentraCore(store, rq)
            found == IF rq.valid THEN FindOne(store, rq.oid) ELSE None
            coll == IF rq.valid THEN DeleteOne(store, rq.oid) ELSE store
            done == out.kind = "return" /\ out.value
        IN  /\ store' = coll
            /\ nDeleted' = IF done THEN nDeleted + 1 ELSE nDeleted
            /\ removed' = IF done THEN removed \cup {rq.oid} ELSE removed
            /\ born' = [k \in DOMAIN coll |-> born[k]]
            /\ writes' = [k \in DOMAIN coll |-> writes[k]]
            /\ resp' = Answer("delete", rq.sid, out,
                              RouteById(out, out.kind = "return" /\ ~out.value),
                              Seen(found /= None, 0, coll /= store,
                                   IF rq.valid THEN 1 ELSE 0, found, 0),
                              None)
            /\ UNCHANGED <<clock, oids, pc, req, nCreated, nUpdates>>

\* GET /count/
Count ==
    LET out == ControllerCatch(Return(CountDocuments(store)))
    IN  /\ resp' = Answer("count", <<>>, out, RouteRead(out),
                          Seen(FALSE, 0, FALSE, 1, None, 0), None)
        /\ UNCHANGED <<store, clock, oids, pc, req, nCreated, nDeleted,
                       removed, born, writes, nUpdates>>

\* get_all_sentra_core (controller 47-55) on one sorted order of the cursor.
GetAllSentraCore(coll, order, skip, limit) ==
    LET ids == Page(order, skip, limit)
    IN  ControllerCatch(
          IF \A i \in 1..Len(ids) : Conforms(coll[ids[i]])
          THEN Return([i \in 1..Len(ids) |-> SentraCoreModelOf(coll[ids[i]])])
          ELSE Raise("ValidationError", 0))

\* GET /?skip=&limit= ; the Query bounds are skip >= 0 and 1 <= limit <= 1000.
List ==
    \E skip \in 0..CountDocuments(store), limit \in 1..(CountDocuments(store) + 1) :
      \E o \in SortedOrders(store) :
        LET out == GetAllSentraCore(store, o, skip, limit)
        IN  /\ resp' = Answer("list", <<>>, out, RouteRead(out),
                              Seen(FALSE, 0, FALSE, 1, None, 0),
                              Some([skip |-> skip, limit |-> limit,
                                    keys |-> DOMAIN store]))
            /\ UNCHANGED <<store, clock, oids, pc, req, nCreated, nDeleted,
                           removed, born, writes, nUpdates>>

\* How many pages of limit records cover count records (one page when empty).
NumPages(count, limit) == IF count = 0 THEN 1 ELSE (count + limit - 1) \div limit

\* A client pages through the collection with GET /?skip=k&limit=N for
\* k = 0, N, 2N, ... while no write happens; every page is a query of its own.
Scan ==
    \E limit \in 1..(CountDocuments(store) + 1) :
      LET np == NumPages(CountDocuments(store), limit)
      IN  \E os \in [1..np -> SortedOrders(store)] :
            LET pages == [i \in 1..np |->
                            GetAllSentraCore(store, os[i], (i - 1) * limit, limit)]
                out == IF \A i \in 1..np : pages[i].kind = "return"
                       THEN Return([i \in 1..np |-> pages[i].value])
                       ELSE Raise("Exception", 0)
            IN  /\ resp' = Answer("scan", <<>>, out, RouteRead(out),
                                  Seen(FALSE, 0, FALSE, np, None, 0),
                                  Some([skip |-> 0, limit |-> limit,
                                        keys |-> DOMAIN store]))
                /\ UNCHANGED <<store, clock, oids, pc, req, nCreated, nDeleted,
                               removed, born, writes, nUpdates>>

\* The last two elements of a sequence.
LastTwo(s) == IF Len(s) <= 2 THEN s ELSE SubSeq(s, Len(s) - 1, Len(s))

\* The history of matched update_one calls after request r of handler p is
\* applied to coll; inflight are the other handlers whose update_one on the
\* same key is still to come.
Written(wr, coll, r, p, inflight) ==
    IF r.oid \in DOMAIN coll /\ r.oid \in DOMAIN wr
    THEN [wr EXCEPT ![r.oid] =
            LastTwo(Append(@, [before |-> coll[r.oid], u |-> r.u, t |-> r.t,
                               dict |-> r.dict, proc |-> p, inflight |-> inflight]))]
    ELSE wr

\* update_sentra_core after update_one on coll gave the modified count n:
\* None when n is 0, else the re-read of after (controller 73-77).
UpdateReturn(n, after, oid) ==
    IF n = 0 THEN Return(None) ELSE BuildModel(FindOne(after, oid))

\* The answer of PUT /{sentra_core_id} for the controller outcome out.
PutAnswer(r, out, seen) ==
    Answer("put", r.sid, out, RouteById(out, out.kind = "return" /\ out.value = None),
           seen, Some(r.u))

\* A PUT with a malformed id: the ValueError is raised before the clock is
\* read and before any store call.
UpdateMalformed(rq, u) ==
    /\ ~rq.valid
    /\ resp' = PutAnswer([sid |-> rq.sid, u |-> u], ControllerCatch(Raise("ValueError", 0)),
                         NothingSeen)
    /\ UNCHANGED <<store, clock, oids, pc, req, nCreated, nDeleted, removed, born,
                   writes, nUpdates>>

\* PUT /{sentra_core_id} with no other request between its store calls
\* (controller 57-80, routes 73-88).
UpdateWith(rq, u) ==
    \/ UpdateMalformed(rq, u)
    \/ /\ rq.valid
       /\ oids + nUpdates < MaxOps
       /\ \E t \in Readings(clock) :
            LET r == UpdateRequest(rq, u, t)
                coll == UpdateOne(store, r.oid, r.dict)
                n == ModifiedCount(store, r.oid, r.dict)
                out == ControllerCatch(UpdateReturn(n, coll, r.oid))
            IN  /\ store' = coll
                /\ clock' = t
                /\ nUpdates' = nUpdates + 1
                /\ resp' = PutAnswer(r, out,
                              Seen(r.oid \in DOMAIN store, n, coll /= store,
                                   IF n = 0 THEN 1 ELSE 2,
                                   FindOne(store, r.oid), t))
       /\ UNCHANGED <<oids, pc, req, nCreated, nDeleted, removed, born, writes>>

\* PUT with a body that names its fields with values.
Update == \E rq \in RequestIds, u \in UpdateRequests : UpdateWith(rq, u)

\* PUT with any body that passes request validation, a field named with
\* null included.
UpdateNullable ==
    \E rq \in RequestIds, u \in UpdateRequests \cup NullUpdateRequests : UpdateWith(rq, u)

\* The same PUT when other requests run between its awaits.  First, up to
\* the await of update_one (controller 59-68): the id check, then update_dict
\* with one clock reading.
UpdateBegin(p) ==
    /\ pc[p] = "idle"
    /\ \E rq \in RequestIds, u \in UpdateRequests :
        \/ UpdateMalformed(rq, u)
        \/ /\ rq.valid
           /\ oids + nUpdates < MaxOps
           /\ \E t \in Readings(clock) :
                /\ clock' = t
                /\ req' = [req EXCEPT ![p] = UpdateRequest(rq, u, t)]
           /\ nUpdates' = nUpdates + 1
           /\ pc' = [pc EXCEPT ![p] = "update_one"]
           /\ resp' = NoAnswer
           /\ UNCHANGED <<store, oids, nCreated, nDeleted, removed, born, writes>>

\* The update_one call takes effect at the store (controller 68-77); with a
\* modified count of 0 the controller returns None and the route answers.
UpdateStore(p) ==
    /\ pc[p] = "update_one"
    /\ LET r == req[p]
           coll == UpdateOne(store, r.oid, r.dict)
           n == ModifiedCount(store, r.oid, r.dict)
           inflight == { q \in Procs \ {p} : pc[q] = "update_one" /\ req[q].oid = r.oid }
       IN  /\ store' = coll
           /\ writes' = Written(writes, store, r, p, inflight)
           /\ IF n = 0
              THEN /\ resp' = PutAnswer(r, ControllerCatch(UpdateReturn(n, coll, r.oid)),
                                 Seen(r.oid \in DOMAIN store, n, coll /= store, 1,
                                      FindOne(store, r.oid), r.t))
                   /\ pc' = [pc EXCEPT ![p] = "idle"]
                   /\ req' = [req EXCEPT ![p] = NoRequest]
              ELSE /\ resp' = NoAnswer
                   /\ pc' = [pc EXCEPT ![p] = "find_one"]
                   /\ UNCHANGED req
    /\ UNCHANGED <<clock, oids, nCreated, nDeleted, removed, born, nUpdates>>

\* The re-read after a modifying update (controller 75-76) and the answer.
UpdateFind(p) ==
    /\ pc[p] = "find_one"
    /\ LET r == req[p]
           out == ControllerCatch(UpdateReturn(1, store, r.oid))
       IN  /\ resp' = PutAnswer(r, out,
                         Seen(r.oid \in DOMAIN store, 1, FALSE, 2,
                              FindOne(store, r.oid), r.t))
           /\ pc' = [pc EXCEPT ![p] = "idle"]
           /\ req' = [req EXCEPT ![p] = NoRequest]
    /\ UNCHANGED <<store, clock, oids, nCreated, nDeleted, removed, born, writes,
                   nUpdates>>

\* The routes by identifier, creation and count, each handler running
\* without another request between its store calls.
Next ==
    \/ Create
    \/ SaveState
    \/ Get
    \/ Delete
    \/ Count
    \/ Update

Spec == Init /\ [][Next]_vars

\* Paging: the writes that decide which records exist, and the list route.
NextPaging ==
    \/ Create
    \/ SaveState
    \/ Delete
    \/ List
    \/ Scan

SpecPaging == Init /\ [][NextPaging]_vars

\* Two PUT handlers in flight together, with creation and deletion between
\* their store calls.
NextConcurrent ==
    \/ Create
    \/ Delete
    \/ \E p \in Procs : UpdateBegin(p)
    \/ \E p \in Procs : UpdateStore(p)
    \/ \E p \in Procs : UpdateFind(p)

SpecConcurrent == Init /\ [][NextConcurrent]_vars

\* Bodies with null fields: creation, PUTs that may name a field with null,
\* and the two reads of stored records.
NextNullable ==
    \/ Create
    \/ UpdateNullable
    \/ Get
    \/ List

SpecNullable == Init /\ [][NextNullable]_vars

\* ------------------------------------------------------------- claims
\* The answers of the three /{sentra_core_id} routes.
ByIdAnswer == resp.op \in {"get", "put", "delete"}

\* The stored key an answer's identifier denotes.
AnswerKey == ObjectId(resp.sid)

\* C1: GET, PUT and DELETE /{id} with a well-formed identifier that matches
\* no stored record answer 404.
NotFoundIs404 ==
    (ByIdAnswer /\ IsValidObjectId(resp.sid) /\ ~resp.seen.matched)
        => resp.status = 404

\* C2: GET, PUT and DELETE /{id} with a malformed identifier answer 400, and
\* fail before any store call, leaving the store unchanged.
MalformedIs400 ==
    (ByIdAnswer /\ ~IsValidObjectId(resp.sid))
        => /\ resp.status = 400
           /\ resp.seen.calls = 0
           /\ ~resp.seen.changed

\* C3: an update of an existing record sets exactly the fields its patch
\* names: every field absent from the patch keeps its stored value, _id and
\* created_at are unchanged, the named fields take the patch's values and
\* updated_at the time of the call.
PatchMergesOnlyPresentFields ==
    (resp.op = "put" /\ resp.seen.matched)
        => LET u == resp.input[1]
               b == resp.seen.before[1]
               d == store[AnswerKey]
           IN  /\ AnswerKey \in DOMAIN store
               /\ DOMAIN d = DOMAIN b
               /\ \A f \in Fields \ u.fields_set : d[f] = b[f]
               /\ \A f \in u.fields_set : d[f] = u.vals[f]
               /\ d["_id"] = b["_id"]
               /\ d.created_at = b.created_at
               /\ d.updated_at = resp.seen.t

\* C3 witness: a patch naming only name changed the name of a record whose
\* labels and connections are not empty.
NameOnlyPatchApplied ==
    /\ resp.op = "put"
    /\ resp.seen.matched
    /\ resp.input[1].fields_set = {"name"}
    /\ store[AnswerKey].name /= resp.seen.before[1].name
    /\ store[AnswerKey].labels = Some(<<LabelB, LabelA>>)
    /\ store[AnswerKey].connections = Some(<<ConnAB>>)

\* C4 as stated: an update with an empty patch on an existing record returns
\* absent with zero modified fields and leaves the record, updated_at
\* included, as it was.
EmptyPatchIdempotent ==
    (resp.op = "put" /\ resp.seen.matched /\ resp.input[1].fields_set = {})
        => /\ resp.kind = "return"
           /\ resp.value = None
           /\ resp.seen.modified = 0
           /\ store[AnswerKey] = resp.seen.before[1]

\* C4 amended: an update with an empty patch on an existing record changes
\* no field but updated_at, which becomes the time of the call; it returns
\* absent exactly when that time equals the stored updated_at (zero modified
\* fields) and the refreshed record otherwise.
EmptyPatchRefreshesUpdatedAt ==
    (resp.op = "put" /\ resp.seen.matched /\ resp.input[1].fields_set = {})
        => LET b == resp.seen.before[1]
               d == store[AnswerKey]
           IN  /\ d = [b EXCEPT !.updated_at = resp.seen.t]
               /\ resp.kind = "return"
               /\ (resp.seen.modified = 0) <=> (resp.seen.t = b.updated_at)
               /\ (resp.value = None) <=> (resp.seen.modified = 0)
               /\ resp.seen.modified /= 0 => resp.value = Some(SentraCoreModelOf(d))

\* C4 witness: an empty patch moved updated_at and returned the record.
EmptyPatchMovedUpdatedAt ==
    /\ resp.op = "put"
    /\ resp.seen.matched
    /\ resp.input[1].fields_set = {}
    /\ resp.seen.modified = 1
    /\ store[AnswerKey].updated_at > resp.seen.before[1].updated_at
    /\ resp.value /= None

\* C5: create returns the persisted record with a well-formed identifier,
\* created_at equal to updated_at, and the five fields equal to the input,
\* lists in the input's order.
CreateReturnsInput ==
    resp.op \in {"create", "save"}
        => /\ resp.kind = "return"
           /\ resp.value /= None
           /\ LET m == resp.value[1]
              IN  /\ IsValidObjectId(ObjectIdText(m.id))
                  /\ ObjectId(ObjectIdText(m.id)) = m.id
                  /\ m.id \in DOMAIN store
                  /\ ModelDumpByAlias(m) = store[m.id]
                  /\ \A f \in Fields : m[f] = resp.input[1][f]
                  /\ m.created_at = m.updated_at

\* C6: every stored record has updated_at >= created_at, and its _id and
\* created_at are the values it was inserted with.
TimestampsAndIdentityKept ==
    \A k \in DOMAIN store :
        /\ store[k].updated_at >= store[k].created_at
        /\ store[k]["_id"] = k
        /\ k \in IssuedIds
        /\ store[k].created_at = born[k]

\* C6 witness: an update moved updated_at past created_at.
UpdatedAfterCreated ==
    /\ resp.op = "put"
    /\ resp.seen.matched
    /\ resp.seen.modified = 1
    /\ store[AnswerKey].updated_at > store[AnswerKey].created_at
    /\ resp.seen.before[1].updated_at = store[AnswerKey].created_at

\* C7: once delete(id) has returned true, id is not stored and get_by_id(id)
\* returns absent from then on; delete on a well-formed id that matches no
\* record returns false, raises nothing and leaves the store unchanged.
DeletedStaysAbsent ==
    /\ removed \cap DOMAIN store = {}
    /\ \A k \in removed : GetSentraCoreById(store, IdInput(ObjectIdText(k))) = Return(None)
    /\ (resp.op = "get" /\ IsValidObjectId(resp.sid) /\ AnswerKey \in removed)
          => (resp.kind = "return" /\ resp.value = None)
    /\ (resp.op = "delete" /\ IsValidObjectId(resp.sid))
          => /\ resp.kind = "return"
             /\ resp.value <=> resp.seen.matched
             /\ resp.value => AnswerKey \in removed
             /\ ~resp.seen.matched => ~resp.seen.changed

\* C7 witness: a delete of an identifier that an earlier delete removed.
DeleteOfDeleted ==
    /\ resp.op = "delete"
    /\ IsValidObjectId(resp.sid)
    /\ AnswerKey \in removed
    /\ ~resp.seen.matched

\* C8: the number of stored records, and the answer of count(), is the
\* number of creates that returned a record (POST / or POST /save-state/)
\* minus the number of deletes that returned true; updates do not change it.
CountIsCreatedMinusDeleted ==
    /\ CountDocuments(store) = nCreated - nDeleted
    /\ resp.op = "count" => (resp.kind = "return" /\ resp.value = nCreated - nDeleted)

\* C8 witness: count() answered after two creates, an update and a delete.
CountAfterWrites ==
    /\ resp.op = "count"
    /\ nCreated = 2
    /\ nUpdates = 1
    /\ nDeleted = 1
    /\ resp.value = 1

\* The keys on page i of a paging answer.
PageKeys(pages, i) == { pages[i][j].id : j \in 1..Len(pages[i]) }

\* C9: the pages of list(skip=k, limit=N) for k = 0, N, 2N, ... are sorted by
\* created_at descending across the whole sequence, hold at most N records
\* each, and together hold every stored record exactly once.
PagesPartition ==
    (resp.op = "scan" /\ resp.kind = "return")
        => LET pages == resp.value
               n == resp.input[1].limit
           IN  /\ \A i \in DOMAIN pages : Len(pages[i]) <= n
               /\ \A i \in DOMAIN pages : \A j1, j2 \in DOMAIN pages[i] :
                      j1 < j2 => pages[i][j1].created_at >= pages[i][j2].created_at
               /\ \A i1, i2 \in DOMAIN pages :
                      i1 < i2 => \A j1 \in DOMAIN pages[i1], j2 \in DOMAIN pages[i2] :
                                    pages[i1][j1].created_at >= pages[i2][j2].created_at
               /\ \A i1, i2 \in DOMAIN pages :
                      i1 /= i2 => PageKeys(pages, i1) \cap PageKeys(pages, i2) = {}
               /\ UNION { PageKeys(pages, i) : i \in DOMAIN pages } = resp.input[1].keys

\* Whether the last two update_one calls on key k came from two PUTs in
\* flight together: the later caller had built its update_dict before the
\* earlier call took effect.
ConcurrentPair(k) ==
    /\ Len(writes[k]) = 2
    /\ writes[k][1].proc /= writes[k][2].proc
    /\ writes[k][2].proc \in writes[k][1].inflight

\* C10: after two concurrent updates of one record, every field holds the
\* value of the later store update that names it, else the value of the
\* earlier one if that names it, else the value it had before both.
ConcurrentUpdatesLastWriteWins ==
    \A k \in DOMAIN store :
        ConcurrentPair(k)
            => LET first == writes[k][1].dict
                   second == writes[k][2].dict
                   base == writes[k][1].before
               IN  /\ DOMAIN store[k] = DOMAIN base
                   /\ \A f \in DOMAIN base :
                        store[k][f] = IF f \in DOMAIN second THEN second[f]
                                      ELSE IF f \in DOMAIN first THEN first[f]
                                      ELSE base[f]

\* C10 witness: two PUTs in flight together both named name, with different
\* values, and only the earlier store update named labels.
ConcurrentPatchesApplied ==
    \E k \in DOMAIN store :
        /\ ConcurrentPair(k)
        /\ "labels" \in DOMAIN writes[k][1].dict
        /\ "labels" \notin DOMAIN writes[k][2].dict
        /\ "name" \in DOMAIN writes[k][2].dict
        /\ writes[k][1].dict.name /= writes[k][2].dict.name
        /\ store[k].labels /= writes[k][1].before.labels
        /\ writes[k][2].t < writes[k][1].t

\* C11: an update with a well-formed id always ends with the refreshed record
\* or absent, never with an error; when a delete of the same id took effect
\* between its update_one and its re-read, it returns absent and the route
\* answers 404.
UpdateNeverFails ==
    (resp.op = "put" /\ IsValidObjectId(resp.sid))
        => /\ resp.kind = "return"
           /\ (resp.seen.modified = 1 /\ resp.seen.calls = 2 /\ ~resp.seen.matched)
                 => (resp.value = None /\ resp.status = 404)

\* C12: after creates and updates whose bodies pass request validation,
\* every stored record conforms to the record model, get_by_id on the id of a
\* stored record returns that record, and list returns the records, neither
\* failing.
StoredRecordsConform ==
    /\ \A k \in DOMAIN store : Conforms(store[k])
    /\ (resp.op = "get" /\ IsValidObjectId(resp.sid) /\ resp.seen.matched)
          => /\ resp.kind = "return"
             /\ resp.value = Some(SentraCoreModelOf(store[AnswerKey]))
             /\ resp.status = 200
    /\ resp.op = "list" => (resp.kind = "return" /\ resp.status = 200)

====
